---------------------------- MODULE Spec2Model ----------------------------
(***************************************************************************)
(* A model of pdf2docx's TextBlock (src/pdf2docx/text/TextBlock.py): a     *)
(* text block owns an ordered list of lines, each an ordered list of text  *)
(* or image spans with bounding boxes, and derives alignment, spacing,     *)
(* discreteness, style-run splits and the paragraph written to docx.       *)
(*                                                                         *)
(* Coordinates are integers on a grid of Unit steps per PDF point, so that  *)
(* edges can lie a fraction of a point apart.  A bbox is <<x0, y0, x1,     *)
(* y1>>; Python's 0-based bbox[k] is written b[k+1].  Quotients that       *)
(* Python computes in floating point are kept exact as fractions [n, d],   *)
(* d > 0.                                                                  *)
(***************************************************************************)
EXTENDS Integers, Sequences, FiniteSets, TLC

VARIABLES
    lines,          \* self.lines: sequence of Line records
    before_space,   \* self.before_space (fraction)
    after_space,    \* self.after_space  (fraction)
    line_space,     \* self.line_space   (fraction)
    alignment,      \* self.alignment
    left_space,     \* self.left_space
    right_space,    \* self.right_space
    op,             \* the method that has run on the block ("new": none yet)
    arg,            \* the argument that method was given
    ret,            \* what it returned / handed to its collaborator
    old             \* the block's lines and before_space at method entry

vars == <<lines, before_space, after_space, line_space, alignment,
          left_space, right_space, op, arg, ret, old>>

(***************************************************************************)
(* Bounds of the model.                                                    *)
(***************************************************************************)
MaxLines == 3       \* lines per block
MaxRects == 1       \* shapes handed to one parse_text_format call
Unit == 4           \* grid steps per point

(***************************************************************************)
(* Program constants.                                                      *)
(***************************************************************************)
DM == 1             \* common.constants.DM: alignment tolerance
distance == 25      \* contains_discrete_lines(distance=25, ...)
threshold == 2      \* contains_discrete_lines(..., threshold=2)

\* DM on the grid, and a bbox given in points.
Tol == DM * Unit
P(x0, y0, x1, y1) == <<x0 * Unit, y0 * Unit, x1 * Unit, y1 * Unit>>

(***************************************************************************)
(* Arithmetic helpers.                                                     *)
(***************************************************************************)
Abs(x) == IF x < 0 THEN -x ELSE x
Max2(a, b) == IF a >= b THEN a ELSE b
Min2(a, b) == IF a <= b THEN a ELSE b
SetMax(S) == CHOOSE m \in S : \A x \in S : x <= m
SetMin(S) == CHOOSE m \in S : \A x \in S : m <= x

\* Exact fractions standing for Python floats.
Frac(n, d) == [n |-> n, d |-> d]
FInt(k) == Frac(k, 1)
FAdd(a, b) == Frac(a.n * b.d + b.n * a.d, a.d * b.d)
FSub(a, b) == Frac(a.n * b.d - b.n * a.d, a.d * b.d)
FDivInt(a, k) == Frac(a.n, a.d * k)
FEq(a, b) == a.n * b.d = b.n * a.d

(***************************************************************************)
(* Geometry (fitz.Rect as used by the block).                              *)
(***************************************************************************)
Union(a, b) == <<Min2(a[1], b[1]), Min2(a[2], b[2]), Max2(a[3], b[3]), Max2(a[4], b[4])>>

\* Rect.intersects / a non-empty (a & b): the overlap has positive area.
Intersects(a, b) ==
    /\ Max2(a[1], b[1]) < Min2(a[3], b[3])
    /\ Max2(a[2], b[2]) < Min2(a[4], b[4])

\* A non-empty rect.bbox & (line.bbox + DR): DR is the small margin the line
\* bbox is grown by, taken as DM/2 on every side; compared in doubled
\* coordinates.
IntersectsExpanded(r, b) ==
    /\ Max2(2 * r[1], 2 * b[1] - Tol) < Min2(2 * r[3], 2 * b[3] + Tol)
    /\ Max2(2 * r[2], 2 * b[2] - Tol) < Min2(2 * r[4], 2 * b[4] + Tol)

RECURSIVE UnionAll(_)
UnionAll(bs) ==
    IF Len(bs) = 1 THEN bs[1] ELSE Union(bs[1], UnionAll(Tail(bs)))

(***************************************************************************)
(* Spans and lines.                                                        *)
(***************************************************************************)
TextSpan(b) == [kind |-> "text", bbox |-> b, style |-> {}]
ImageSpan(b) == [kind |-> "image", bbox |-> b, style |-> {}]

\* A line's bbox is the union of its spans' bboxes.
Line(dir, spans) ==
    [bbox |-> UnionAll([i \in 1..Len(spans) |-> spans[i].bbox]),
     text_direction |-> dir,
     spans |-> spans]

\* The lines blocks are built from: horizontal text in the rows y 0..10 and
\* y 14..24, one line as high as both rows, lines with an image span, and
\* one line of vertical text.
LinePool ==
    { Line("LEFT_RIGHT", <<TextSpan(P(0, 0, 40, 10))>>),
      Line("LEFT_RIGHT", <<TextSpan(P(20, 0, 60, 10))>>),
      Line("LEFT_RIGHT", <<TextSpan(P(1, 14, 60, 24))>>),
      Line("LEFT_RIGHT", <<TextSpan(P(70, 14, 80, 24)), ImageSpan(P(90, 14, 100, 24))>>),
      Line("LEFT_RIGHT", <<TextSpan(P(70, 0, 100, 24))>>),
      Line("LEFT_RIGHT", <<ImageSpan(P(10, 14, 30, 24))>>),
      Line("BOTTOM_TOP", <<TextSpan(P(0, 0, 10, 40))>>) }

Blocks == UNION { [1..n -> LinePool] : n \in 1..MaxLines }

BeforeSpaces == {0, 6}

\* Page / column boxes handed to set_alignment.
Containers ==
    { P(0, 0, 100, 100), P(-10, -10, 50, 50), P(-5, 5, 35, 45), P(-20, 0, 61, 30) }

(***************************************************************************)
(* Block properties.                                                       *)
(***************************************************************************)
\* Block.bbox: the union of the contained lines' bboxes.
BlockBBox(ls) == UnionAll([i \in 1..Len(ls) |-> ls[i].bbox])

text_direction(ls) ==
    LET res == {ls[i].text_direction : i \in 1..Len(ls)}
    IN  IF "IGNORE" \in res THEN "IGNORE"
        ELSE IF Cardinality(res) = 1 THEN CHOOSE d \in res : TRUE
        ELSE "LEFT_RIGHT"

is_horizontal_text(ls) == text_direction(ls) = "LEFT_RIGHT"
is_vertical_text(ls) == text_direction(ls) = "BOTTOM_TOP"

(***************************************************************************)
(* set_alignment                                                           *)
(***************************************************************************)
Idx0(ls) == IF is_horizontal_text(ls) THEN 1 ELSE 4
Idx1(ls) == IF is_horizontal_text(ls) THEN 3 ELSE 2
SignF(ls) == IF is_horizontal_text(ls) THEN 1 ELSE -1

d_left(ls, bbox) == (BlockBBox(ls)[Idx0(ls)] - bbox[Idx0(ls)]) * SignF(ls)
d_right(ls, bbox) == (bbox[Idx1(ls)] - BlockBBox(ls)[Idx1(ls)]) * SignF(ls)
\* d_center = (d_left - d_right) / 2.0, kept doubled.
d_center2(ls, bbox) == d_left(ls, bbox) - d_right(ls, bbox)

X0(ls) == {ls[i].bbox[Idx0(ls)] : i \in 1..Len(ls)}
X1(ls) == {ls[i].bbox[Idx1(ls)] : i \in 1..Len(ls)}
\* X = (x0 + x1) / 2.0, kept doubled.
XX2(ls) == {ls[i].bbox[Idx0(ls)] + ls[i].bbox[Idx1(ls)] : i \in 1..Len(ls)}

left_aligned(ls) == Abs(SetMax(X0(ls)) - SetMin(X0(ls))) <= Tol
right_aligned(ls) == Abs(SetMax(X1(ls)) - SetMin(X1(ls))) <= Tol
center_aligned(ls) == Abs(SetMax(XX2(ls)) - SetMin(XX2(ls))) <= 2 * Tol

\* Mutant: the tie |d_left| = |d_right| goes to RIGHT (< for <=).
AlignByPage_TieRight(ls, bbox) ==
    IF Abs(d_center2(ls, bbox)) < 2 * Tol
    THEN [alignment |-> "CENTER", left_space |-> left_space, right_space |-> right_space]
    ELSE IF Abs(d_left(ls, bbox)) < Abs(d_right(ls, bbox))
    THEN [alignment |-> "LEFT", left_space |-> d_left(ls, bbox), right_space |-> right_space]
    ELSE [alignment |-> "RIGHT", left_space |-> left_space, right_space |-> d_right(ls, bbox)]

\* The fall-back on the position in the page bbox (the final else).
AlignByPage(ls, bbox) ==
    IF Abs(d_center2(ls, bbox)) < 2 * Tol
    THEN [alignment |-> "CENTER", left_space |-> left_space, right_space |-> right_space]
    ELSE IF Abs(d_left(ls, bbox)) <= Abs(d_right(ls, bbox))
    THEN [alignment |-> "LEFT", left_space |-> d_left(ls, bbox), right_space |-> right_space]
    ELSE [alignment |-> "RIGHT", left_space |-> left_space, right_space |-> d_right(ls, bbox)]

\* Mutant: the first branch stores the right margin as left_space.
AlignResult_WrongMargin(ls, bbox) ==
    IF left_aligned(ls) /\ ~right_aligned(ls)
    THEN [alignment |-> "LEFT", left_space |-> d_right(ls, bbox), right_space |-> right_space]
    ELSE IF right_aligned(ls) /\ ~left_aligned(ls)
    THEN [alignment |-> "RIGHT", left_space |-> left_space, right_space |-> d_right(ls, bbox)]
    ELSE IF center_aligned(ls) /\ ~left_aligned(ls) /\ ~right_aligned(ls)
    THEN [alignment |-> "CENTER", left_space |-> left_space, right_space |-> right_space]
    ELSE AlignByPage(ls, bbox)

\* The whole decision of set_alignment: the fields it leaves the block with.
AlignResult(ls, bbox) ==
    IF left_aligned(ls) /\ ~right_aligned(ls)
    THEN [alignment |-> "LEFT", left_space |-> d_left(ls, bbox), right_space |-> right_space]
    ELSE IF right_aligned(ls) /\ ~left_aligned(ls)
    THEN [alignment |-> "RIGHT", left_space |-> left_space, right_space |-> d_right(ls, bbox)]
    ELSE IF center_aligned(ls) /\ ~left_aligned(ls) /\ ~right_aligned(ls)
    THEN [alignment |-> "CENTER", left_space |-> left_space, right_space |-> right_space]
    ELSE AlignByPage(ls, bbox)

set_alignment ==
    /\ op = "new"
    /\ \E bbox \in Containers :
        /\ alignment' = AlignResult(lines, bbox).alignment
        /\ left_space' = AlignResult(lines, bbox).left_space
        /\ right_space' = AlignResult(lines, bbox).right_space
        /\ arg' = bbox
    /\ op' = "set_alignment"
    /\ ret' = "None"
    /\ UNCHANGED <<lines, before_space, after_space, line_space, old>>

(***************************************************************************)
(* Line predicates (Line.in_same_row, Line.horizontally_align_with) and    *)
(* Lines.image_spans.                                                      *)
(***************************************************************************)
\* The reference line before the first line of a loop (Python None).
NoLine == [bbox |-> <<0, 0, 0, 0>>, text_direction |-> "None", spans |-> <<>>]

\* Index of the low edge along / across the text flow of a line.
FlowIdx(line) == IF line.text_direction = "LEFT_RIGHT" THEN 1 ELSE 2
CrossIdx(line) == IF line.text_direction = "LEFT_RIGHT" THEN 2 ELSE 1

\* Length of the overlap of two bboxes on the axis whose low edge is k.
Overlap(a, b, k) == Min2(a[k + 2], b[k + 2]) - Max2(a[k], b[k])
Extent(a, k) == a[k + 2] - a[k]

\* In the same row: the bboxes overlap, across the text flow, by at least
\* half the smaller extent.  No line is in the same row as None.
in_same_row(line, ref) ==
    IF ref.text_direction = "None" THEN FALSE
    ELSE LET k == CrossIdx(line)
         IN  /\ Overlap(line.bbox, ref.bbox, k) > 0
             /\ 2 * Overlap(line.bbox, ref.bbox, k)
                    >= Min2(Extent(line.bbox, k), Extent(ref.bbox, k))

\* Horizontally aligned: the extents along the text flow overlap, within DM.
horizontally_align_with(line, other) ==
    Overlap(line.bbox, other.bbox, FlowIdx(line)) >= -Tol

\* Lines.image_spans: the image spans of all lines, as <<line, span>>.
image_spans(ls) ==
    UNION { {<<i, j>> : j \in {j \in 1..Len(ls[i].spans) : ls[i].spans[j].kind = "image"}} :
            i \in 1..Len(ls) }

(***************************************************************************)
(* contains_discrete_lines                                                 *)
(***************************************************************************)
\* The loop over consecutive pairs, from pair i with counter cnt.
RECURSIVE DiscreteScan(_, _, _, _, _)
DiscreteScan(ls, i, cnt, dist, thr) ==
    IF i > Len(ls) - 1 THEN cnt >= thr
    ELSE IF horizontally_align_with(ls[i], ls[i + 1])
         THEN IF ~in_same_row(ls[i], ls[i + 1]) THEN TRUE
              ELSE IF Abs(ls[i].bbox[3] - ls[i + 1].bbox[1]) > dist
                   THEN DiscreteScan(ls, i + 1, cnt + 1, dist, thr)
                   ELSE DiscreteScan(ls, i + 1, cnt, dist, thr)
         ELSE DiscreteScan(ls, i + 1, cnt, dist, thr)

\* Mutant: the image test is dropped.
DiscreteLines_NoImageTest(ls, dist, thr) ==
    IF Len(ls) = 1 THEN FALSE
    ELSE IF is_vertical_text(ls) THEN TRUE
    ELSE DiscreteScan(ls, 1, 1, dist, thr)

DiscreteLines(ls, dist, thr) ==
    IF Len(ls) = 1 THEN FALSE
    ELSE IF image_spans(ls) # {} THEN TRUE
    ELSE IF is_vertical_text(ls) THEN TRUE
    ELSE DiscreteScan(ls, 1, 1, dist, thr)

contains_discrete_lines ==
    /\ op = "new"
    /\ op' = "contains_discrete_lines"
    /\ arg' = <<distance, threshold>>
    /\ ret' = DiscreteLines(lines, distance * Unit, threshold)
    /\ UNCHANGED <<lines, before_space, after_space, line_space, alignment,
                   left_space, right_space, old>>

(***************************************************************************)
(* parse_line_spacing                                                      *)
(***************************************************************************)
\* The counting loop: lines i..Len(ls), ref the line before, count so far.
RECURSIVE CountRows(_, _, _, _)
CountRows(ls, i, ref, count) ==
    IF i > Len(ls) THEN count
    ELSE CountRows(ls, i + 1, ls[i],
                   IF ~in_same_row(ls[i], ref) THEN count + 1 ELSE count)

\* Mutant: the average is taken over count rows, not count - 1 gaps.
AverageLineSpace_OverCount(block_height, first_line_height, count) ==
    IF count > 1
    THEN Frac(block_height - first_line_height, count)
    ELSE FInt(block_height)

\* The average line spacing (the local line_space).
AverageLineSpace(block_height, first_line_height, count) ==
    IF count > 1
    THEN Frac(block_height - first_line_height, count - 1)
    ELSE FInt(block_height)

\* Mutant: the clamp leaves line_space alone.
ClampSpacing_KeepLineSpace(bs, ls_avg, count) ==
    IF bs.n < 0
    THEN [line_space |-> ls_avg, before_space |-> FInt(0)]
    ELSE [line_space |-> ls_avg, before_space |-> bs]

\* Mutant: no clamp at all.
ClampSpacing_None(bs, ls_avg, count) ==
    [line_space |-> ls_avg, before_space |-> bs]

\* The last statement: a negative before_space is moved into line_space.
ClampSpacing(bs, ls_avg, count) ==
    IF bs.n < 0
    THEN [line_space |-> FAdd(ls_avg, FDivInt(bs, count)), before_space |-> FInt(0)]
    ELSE [line_space |-> ls_avg, before_space |-> bs]

\* The locals of parse_line_spacing and the adjusted before_space (its value
\* after the += and before the clamp).
SpacingLocals(ls, bs) ==
    LET idx == IF is_horizontal_text(ls) THEN 2 ELSE 1
        count == CountRows(ls, 1, NoLine, 0)
        first_line_height == ls[1].bbox[idx + 2] - ls[1].bbox[idx]
        block_height == BlockBBox(ls)[idx + 2] - BlockBBox(ls)[idx]
        avg == AverageLineSpace(block_height, first_line_height, count)
    IN  [count |-> count,
         first_line_height |-> first_line_height,
         block_height |-> block_height,
         line_space |-> avg,
         adjusted |-> FAdd(bs, FSub(FInt(first_line_height), avg))]

parse_line_spacing ==
    /\ op = "new"
    /\ LET loc == SpacingLocals(lines, before_space)
           fin == ClampSpacing(loc.adjusted, loc.line_space, loc.count)
       IN  /\ line_space' = fin.line_space
           /\ before_space' = fin.before_space
           /\ ret' = loc
    /\ op' = "parse_line_spacing"
    /\ arg' = "None"
    /\ UNCHANGED <<lines, after_space, alignment, left_space, right_space, old>>


(***************************************************************************)
(* make_docx                                                               *)
(***************************************************************************)
\* round(x, 1) of a length on the grid, in tenths of a point (round half to
\* even; the halves that occur, odd quarters, are exact in binary floating
\* point).
Round1(x) ==
    LET den == x.d * Unit
        q == (10 * x.n) \div den
        r == (10 * x.n) % den
    IN  IF 2 * r < den THEN q
        ELSE IF 2 * r > den THEN q + 1
        ELSE IF q % 2 = 0 THEN q ELSE q + 1

\* The paragraph format, every length in tenths of a point.
ParagraphFormat ==
    [space_before |-> Max2(Round1(before_space), 0),
     space_after |-> Max2(Round1(after_space), 0),
     line_spacing |-> Round1(line_space),
     alignment |-> IF alignment \in {"LEFT", "RIGHT"} THEN alignment ELSE "CENTER",
     left_indent |-> IF alignment = "LEFT" THEN <<Round1(FInt(left_space))>> ELSE <<>>,
     right_indent |-> IF alignment = "RIGHT" THEN <<Round1(FInt(right_space))>> ELSE <<>>]

SpanRuns(ls, i) == [j \in 1..Len(ls[i].spans) |-> [run |-> "span", line |-> i, span |-> j]]
BreakRun(i) == [run |-> "break", line |-> i, span |-> 0]

\* Mutant: the same-row test is dropped; every line but the last breaks.
LineBreak_IgnoreRow(ls, i) ==
    i # Len(ls)

\* line_break for line i: line == self.lines[-1] compares Line objects,
\* which are distinct per position, so it holds of the last position only.
LineBreak(ls, i) ==
    IF i = Len(ls) THEN FALSE
    ELSE IF in_same_row(ls[i], ls[i + 1]) THEN FALSE
    ELSE TRUE

\* The runs added for lines i..Len(ls).
RECURSIVE AddLines(_, _)
AddLines(ls, i) ==
    IF i > Len(ls) THEN <<>>
    ELSE SpanRuns(ls, i)
            \o (IF LineBreak(ls, i) THEN <<BreakRun(i)>> ELSE <<>>)
            \o AddLines(ls, i + 1)

make_docx ==
    /\ op = "new"
    /\ op' = "make_docx"
    /\ arg' = "None"
    /\ ret' = [pf |-> ParagraphFormat, runs |-> AddLines(lines, 1)]
    /\ UNCHANGED <<lines, before_space, after_space, line_space, alignment,
                   left_space, right_space, old>>

(***************************************************************************)
(* split                                                                   *)
(***************************************************************************)
\* ls cut after the positions in S.
RECURSIVE SplitAt(_, _)
SplitAt(ls, S) ==
    IF S = {} THEN <<ls>>
    ELSE LET c == SetMin(S)
         IN  <<SubSeq(ls, 1, c)>>
                \o SplitAt(SubSeq(ls, c + 1, Len(ls)), {x - c : x \in S \ {c}})

\* Lines.split: an ordered sequence of groups of lines, each keeping line
\* order, every line in exactly one group, the groups in line order.  Which
\* lines cluster is left open: any such grouping may come back.
LinesSplit(ls) == {SplitAt(ls, S) : S \in SUBSET (1..(Len(ls) - 1))}

\* Mutant: the child of the last group is never appended.
SplitBlocks_DropLast(groups) ==
    [k \in 1..(Len(groups) - 1) |-> [lines |-> groups[k]]]

\* One new TextBlock per group, holding list(lines), in group order.
SplitBlocks(groups) ==
    [k \in 1..Len(groups) |-> [lines |-> groups[k]]]

split ==
    /\ op = "new"
    /\ \E groups \in LinesSplit(lines) :
        /\ arg' = groups
        /\ ret' = SplitBlocks(groups)
    /\ op' = "split"
    /\ UNCHANGED <<lines, before_space, after_space, line_space, alignment,
                   left_space, right_space, old>>

(***************************************************************************)
(* parse_text_format                                                       *)
(***************************************************************************)
Shape(type, b) == [type |-> type, bbox |-> b]

\* The shapes a page hands over: undecided ones over text, in the gap
\* between two spans, touching a line's right edge, over an image, one
\* over the first row that ends a quarter of a point above the second;
\* and one already attributed.
ShapePool ==
    { Shape("UNDEFINED", P(5, 2, 25, 8)),
      Shape("UNDEFINED", P(82, 16, 88, 22)),
      Shape("UNDEFINED", P(40, 2, 45, 8)),
      Shape("UNDEFINED", P(92, 16, 98, 22)),
      Shape("UNDEFINED", <<5 * Unit, 2 * Unit, 25 * Unit, 14 * Unit - 1>>),
      Shape("HIGHLIGHT", P(5, 2, 25, 8)) }

ShapeLists == UNION { [1..n -> ShapePool] : n \in 1..MaxRects }

\* TextSpan.split(rect, horizontal): the span itself when the shape misses
\* it; otherwise the part before the shape, the part under it (which takes
\* the shape's style) and the part after it, along the text flow.
SplitSpan(span, rect, horizontal) ==
    IF ~Intersects(rect.bbox, span.bbox) THEN <<span>>
    ELSE LET k == IF horizontal THEN 1 ELSE 2
             lo == Max2(span.bbox[k], rect.bbox[k])
             hi == Min2(span.bbox[k + 2], rect.bbox[k + 2])
             part(a, b, st) ==
                 [kind |-> "text",
                  bbox |-> [span.bbox EXCEPT ![k] = a, ![k + 2] = b],
                  style |-> st]
         IN  (IF span.bbox[k] < lo THEN <<part(span.bbox[k], lo, span.style)>> ELSE <<>>)
                \o <<part(lo, hi, span.style \cup {rect.bbox})>>
                \o (IF hi < span.bbox[k + 2]
                    THEN <<part(hi, span.bbox[k + 2], span.style)>> ELSE <<>>)

\* The loop over one line's spans, from span j: the new span list.
RECURSIVE SplitSpans(_, _, _)
SplitSpans(line, rect, j) ==
    IF j > Len(line.spans) THEN <<>>
    ELSE (IF line.spans[j].kind = "image" THEN <<line.spans[j]>>
          ELSE SplitSpan(line.spans[j], rect, line.text_direction = "LEFT_RIGHT"))
            \o SplitSpans(line, rect, j + 1)

HasTextSpan(line) == \E j \in 1..Len(line.spans) : line.spans[j].kind = "text"

\* The loop over the lines for shape number r, from line i: the lines and
\* flag it ends with, and the pairs <<r, i>> of the lines whose spans went
\* through the span loop.
RECURSIVE ScanLines(_, _, _, _, _, _)
ScanLines(ls, rect, r, i, flag, reset) ==
    IF i > Len(ls) THEN [lines |-> ls, flag |-> flag, reset |-> reset]
    ELSE IF ~IntersectsExpanded(rect.bbox, ls[i].bbox)
         THEN IF rect.bbox[4] < ls[i].bbox[2]
              THEN [lines |-> ls, flag |-> flag, reset |-> reset]
              ELSE ScanLines(ls, rect, r, i + 1, flag, reset)
         ELSE ScanLines([ls EXCEPT ![i].spans = SplitSpans(ls[i], rect, 1)],
                        rect, r, i + 1, flag \/ HasTextSpan(ls[i]),
                        reset \cup {<<r, i>>})

\* The loop over the shapes, from shape r.
RECURSIVE ScanShapes(_, _, _, _, _)
ScanShapes(ls, rects, r, flag, reset) ==
    IF r > Len(rects) THEN [lines |-> ls, flag |-> flag, reset |-> reset]
    ELSE IF rects[r].type # "UNDEFINED"
         THEN ScanShapes(ls, rects, r + 1, flag, reset)
    ELSE IF ~Intersects(BlockBBox(ls), rects[r].bbox)
         THEN ScanShapes(ls, rects, r + 1, flag, reset)
    ELSE LET res == ScanLines(ls, rects[r], r, 1, flag, reset)
         IN  ScanShapes(res.lines, rects, r + 1, res.flag, res.reset)

\* ret holds the returned flag and the lines each shape was applied to.
parse_text_format ==
    /\ op = "new"
    /\ \E rects \in ShapeLists :
        LET res == ScanShapes(lines, rects, 1, FALSE, {})
        IN  /\ arg' = rects
            /\ lines' = res.lines
            /\ ret' = [flag |-> res.flag, reset |-> res.reset]
    /\ op' = "parse_text_format"
    /\ UNCHANGED <<before_space, after_space, line_space, alignment,
                   left_space, right_space, old>>

(***************************************************************************)
(* Construction and the specification.                                     *)
(***************************************************************************)
Init ==
    /\ lines \in Blocks
    /\ before_space \in {FInt(b * Unit) : b \in BeforeSpaces}
    /\ after_space = FInt(0)
    /\ line_space = FInt(0)
    /\ alignment = "None"
    /\ left_space = 0
    /\ right_space = 0
    /\ op = "new"
    /\ arg = "None"
    /\ ret = "None"
    /\ old = [lines |-> lines, before_space |-> before_space]

Next ==
    \/ set_alignment
    \/ contains_discrete_lines
    \/ parse_line_spacing
    \/ make_docx
    \/ split
    \/ parse_text_format

Spec == Init /\ [][Next]_vars

(***************************************************************************)
(* Properties of set_alignment.                                            *)
(***************************************************************************)
\* The edges of line i along the text-flow axis, read off the block as
\* set_alignment was given it.
FlowLeft(i) == lines[i].bbox[IF is_horizontal_text(lines) THEN 1 ELSE 4]
FlowRight(i) == lines[i].bbox[IF is_horizontal_text(lines) THEN 3 ELSE 2]
FlowMid2(i) == FlowLeft(i) + FlowRight(i)
LeftEdgesWithinDM == \A i, j \in 1..Len(lines) : Abs(FlowLeft(i) - FlowLeft(j)) <= Tol
RightEdgesWithinDM == \A i, j \in 1..Len(lines) : Abs(FlowRight(i) - FlowRight(j)) <= Tol
MidsWithinDM == \A i, j \in 1..Len(lines) : Abs(FlowMid2(i) - FlowMid2(j)) <= 2 * Tol

\* Block-to-container margins for the container in arg.
LeftMargin ==
    IF is_horizontal_text(lines) THEN BlockBBox(lines)[1] - arg[1]
    ELSE arg[4] - BlockBBox(lines)[4]
RightMargin ==
    IF is_horizontal_text(lines) THEN arg[3] - BlockBBox(lines)[3]
    ELSE BlockBBox(lines)[2] - arg[2]

\* C1: after set_alignment on a block whose lines' left edges are all within
\* DM of each other and whose right edges are not, for any container bbox,
\* alignment is LEFT and left_space is the left margin d_left.
C1_LeftAligned ==
    (op = "set_alignment" /\ LeftEdgesWithinDM /\ ~RightEdgesWithinDM)
        => (alignment = "LEFT" /\ left_space = LeftMargin)

C1_Witness ==
    /\ op = "set_alignment"
    /\ LeftEdgesWithinDM /\ ~RightEdgesWithinDM
    /\ Len(lines) >= 2
    /\ alignment = "LEFT"
    /\ left_space # 0

\* No line-based branch fires: the lines are both left- and right-aligned,
\* or neither left-, right- nor center-aligned.
FallsBackToPage ==
    \/ LeftEdgesWithinDM /\ RightEdgesWithinDM
    \/ ~LeftEdgesWithinDM /\ ~RightEdgesWithinDM /\ ~MidsWithinDM

\* C9 as claimed: in the fall-back, an exact tie |d_left| = |d_right| always
\* gives LEFT with left_space = d_left.
C9_TieIsLeft_Original ==
    (op = "set_alignment" /\ FallsBackToPage /\ Abs(LeftMargin) = Abs(RightMargin))
        => (alignment = "LEFT" /\ left_space = LeftMargin)

\* C9 amended: in the fall-back with an exact tie |d_left| = |d_right|, the
\* center test comes first: if |d_center| < DM (always so when d_left =
\* d_right) the alignment is CENTER and left_space is left as it was;
\* otherwise (d_left = -d_right, |d_left| >= DM) it is LEFT with
\* left_space = d_left.
C9_TieBreak ==
    (op = "set_alignment" /\ FallsBackToPage /\ Abs(LeftMargin) = Abs(RightMargin))
        => IF Abs(LeftMargin - RightMargin) < 2 * Tol
           THEN alignment = "CENTER" /\ left_space = 0 /\ right_space = 0
           ELSE alignment = "LEFT" /\ left_space = LeftMargin /\ right_space = 0

C9_Witness ==
    /\ op = "set_alignment"
    /\ FallsBackToPage
    /\ Abs(LeftMargin) = Abs(RightMargin)
    /\ Abs(LeftMargin - RightMargin) >= 2 * Tol
    /\ alignment = "LEFT"
    /\ left_space = LeftMargin

(***************************************************************************)
(* Properties of contains_discrete_lines.                                  *)
(***************************************************************************)
HasImageSpan ==
    \E i \in 1..Len(lines) : \E j \in 1..Len(lines[i].spans) :
        lines[i].spans[j].kind = "image"

\* C2 as claimed: a block with an image span is discrete whatever its number
\* of lines.
C2_ImageAlwaysDiscrete_Original ==
    (op = "contains_discrete_lines" /\ HasImageSpan) => ret = TRUE

\* C2 amended: a block of at least two lines with an image span is discrete
\* whatever its geometry; a single-line block is never discrete, image or
\* not.
C2_ImageDiscrete ==
    op = "contains_discrete_lines" =>
        /\ (HasImageSpan /\ Len(lines) >= 2) => ret = TRUE
        /\ Len(lines) = 1 => ret = FALSE

\* An image block of horizontal text none of whose consecutive lines are
\* horizontally aligned: only the image makes it discrete.
C2_Witness ==
    /\ op = "contains_discrete_lines"
    /\ HasImageSpan
    /\ Len(lines) >= 2
    /\ is_horizontal_text(lines)
    /\ \A i \in 1..(Len(lines) - 1) : ~horizontally_align_with(lines[i], lines[i + 1])
    /\ ret = TRUE

\* Consecutive pairs that are horizontally aligned, in the same row and
\* further apart than distance.
WideGapPairs ==
    {i \in 1..(Len(lines) - 1) :
        /\ horizontally_align_with(lines[i], lines[i + 1])
        /\ in_same_row(lines[i], lines[i + 1])
        /\ Abs(lines[i].bbox[3] - lines[i + 1].bbox[1]) > distance * Unit}

AlignedAcrossRows ==
    \E i \in 1..(Len(lines) - 1) :
        horizontally_align_with(lines[i], lines[i + 1])
            /\ ~in_same_row(lines[i], lines[i + 1])

\* C3: with the defaults, a multi-line, image-free block of horizontal text
\* with no consecutive pair aligned across rows is discrete if and only if
\* the number of wide-gap pairs is at least threshold; so a two-line block
\* with one wide-gap pair is not discrete.
C3_DiscreteIffPairsReachThreshold ==
    (/\ op = "contains_discrete_lines"
     /\ Len(lines) >= 2
     /\ ~HasImageSpan
     /\ is_horizontal_text(lines)
     /\ ~AlignedAcrossRows)
        => (ret = TRUE <=> Cardinality(WideGapPairs) >= threshold)

(***************************************************************************)
(* Properties of parse_line_spacing.  The block's lines are unchanged by   *)
(* it; old.before_space is the before_space it started from.               *)
(***************************************************************************)
CrossLow == IF is_horizontal_text(lines) THEN 2 ELSE 1
FirstLineHeight == lines[1].bbox[CrossLow + 2] - lines[1].bbox[CrossLow]
BlockHeight == BlockBBox(lines)[CrossLow + 2] - BlockBBox(lines)[CrossLow]
RowCount ==
    1 + Cardinality({i \in 1..(Len(lines) - 1) : ~in_same_row(lines[i + 1], lines[i])})
Average ==
    IF RowCount > 1 THEN Frac(BlockHeight - FirstLineHeight, RowCount - 1)
    ELSE FInt(BlockHeight)
Adjusted == FAdd(old.before_space, FSub(FInt(FirstLineHeight), Average))

\* C4 as claimed: after parse_line_spacing, before_space >= 0 and
\* line_space > 0, for any block.
C4_SpacingPositive_Original ==
    op = "parse_line_spacing" => (before_space.n >= 0 /\ line_space.n > 0)

\* C4 amended: after parse_line_spacing, before_space >= 0; and line_space
\* > 0 whenever the prior before_space is >= 0, the first line has positive
\* height, and either there is one row or the block is higher than its
\* first line.
C4_SpacingNonNegative ==
    op = "parse_line_spacing" =>
        /\ before_space.d > 0 /\ line_space.d > 0
        /\ before_space.n >= 0
        /\ (/\ old.before_space.n >= 0
            /\ FirstLineHeight > 0
            /\ (RowCount = 1 \/ BlockHeight > FirstLineHeight))
               => line_space.n > 0

\* The clamp has acted on a block of several rows.
C4_Witness ==
    /\ op = "parse_line_spacing"
    /\ RowCount > 1
    /\ Adjusted.n < 0
    /\ before_space.n = 0
    /\ line_space.n > 0

\* C7: row_count is 1 plus the number of consecutive pairs not in the same
\* row; the computed line_space is (block_height - first_line_height) /
\* (row_count - 1) for row_count > 1 and block_height otherwise; before_space
\* is increased by first_line_height - line_space; both are the block's
\* fields unless the increased before_space is negative.  Height 100, first
\* line 20, 5 rows: line_space 20, adjustment 0.
C7_RowCountAndAverage ==
    /\ op = "parse_line_spacing" =>
        /\ ret.count = RowCount
        /\ ret.first_line_height = FirstLineHeight
        /\ ret.block_height = BlockHeight
        /\ ret.line_space.d > 0
        /\ FEq(ret.line_space, Average)
        /\ FEq(ret.adjusted, Adjusted)
        /\ Adjusted.n >= 0 =>
              (FEq(line_space, Average) /\ FEq(before_space, Adjusted))
    /\ FEq(AverageLineSpace(100, 20, 5), FInt(20))
    /\ FEq(FSub(FInt(20), AverageLineSpace(100, 20, 5)), FInt(0))

\* Three rows, a fractional-free average and a positive prior before_space.
C7_Witness ==
    /\ op = "parse_line_spacing"
    /\ RowCount = 3
    /\ old.before_space.n > 0
    /\ Adjusted.n > 0
    /\ FEq(before_space, Adjusted)
    /\ FEq(line_space, Frac(BlockHeight - FirstLineHeight, 2))

\* C8: when the adjusted before_space is negative, before_space becomes
\* exactly 0 and line_space is the average less |adjusted| / row_count;
\* otherwise both are left as computed.
C8_Clamp ==
    op = "parse_line_spacing" =>
        IF Adjusted.n < 0
        THEN /\ before_space.n = 0
             /\ FEq(line_space,
                    FSub(Average, FDivInt(Frac(Abs(Adjusted.n), Adjusted.d), RowCount)))
        ELSE /\ FEq(before_space, Adjusted)
             /\ FEq(line_space, Average)

\* The scenario: adjusted before_space -4 with 2 rows; line_space goes down
\* by 2.
C8_Witness ==
    /\ op = "parse_line_spacing"
    /\ FEq(Adjusted, FInt(-4 * Unit))
    /\ RowCount = 2
    /\ before_space.n = 0
    /\ FEq(line_space, FSub(Average, FInt(2 * Unit)))

(***************************************************************************)
(* Properties of make_docx.                                                *)
(***************************************************************************)
Runs == ret.runs
BreakAfter(i) == \E k \in 1..Len(Runs) : Runs[k] = BreakRun(i)
PairsAcrossRows ==
    {i \in 1..(Len(lines) - 1) : ~in_same_row(lines[i], lines[i + 1])}

\* C5: make_docx emits the lines in block order, each line's spans (in span
\* order) before any break for that line, and a break after line i exactly
\* when i is not the last line and line i+1 is not in the same row as line
\* i: as many breaks as consecutive pairs not in the same row, none after
\* the last line.
C5_LineBreaks ==
    op = "make_docx" =>
        /\ \A i \in 1..Len(lines) :
              BreakAfter(i) <=> (i < Len(lines) /\ ~in_same_row(lines[i], lines[i + 1]))
        /\ Cardinality({k \in 1..Len(Runs) : Runs[k].run = "break"})
              = Cardinality(PairsAcrossRows)
        /\ Runs[Len(Runs)].run = "span"
        /\ \A i \in 1..Len(lines) : \A j \in 1..Len(lines[i].spans) :
              \E k \in 1..Len(Runs) : Runs[k] = [run |-> "span", line |-> i, span |-> j]
        /\ \A k \in 1..(Len(Runs) - 1) :
              LET a == Runs[k]
                  b == Runs[k + 1]
              IN  \/ a.run = "span" /\ b.run = "span" /\ b.line = a.line
                        /\ b.span = a.span + 1
                  \/ a.run = "span" /\ b.run = "span" /\ b.line = a.line + 1
                        /\ b.span = 1 /\ a.span = Len(lines[a.line].spans)
                  \/ a.run = "span" /\ b.run = "break" /\ b.line = a.line
                        /\ a.span = Len(lines[a.line].spans)
                  \/ a.run = "break" /\ b.run = "span" /\ b.line = a.line + 1
                        /\ b.span = 1

\* Three lines, the first two in one row (no break between them), the third
\* in another (one break), and a line of two spans.
C5_Witness ==
    /\ op = "make_docx"
    /\ Len(lines) = 3
    /\ in_same_row(lines[1], lines[2])
    /\ ~in_same_row(lines[2], lines[3])
    /\ Len(lines[3].spans) = 2
    /\ ~BreakAfter(1) /\ BreakAfter(2) /\ ~BreakAfter(3)

(***************************************************************************)
(* Properties of split.                                                    *)
(***************************************************************************)
RECURSIVE Flatten(_)
Flatten(ss) == IF ss = <<>> THEN <<>> ELSE ss[1] \o Flatten(Tail(ss))

SomeSpansChanged ==
    \E i \in 1..Len(lines) : lines[i].spans # old.lines[i].spans

\* C10: parse_text_format returns true if and only if some line's span
\* sequence was changed by a split; it returns false, with every span
\* sequence unchanged, when no undecided shape overlaps a text span.
C10_FlagIffSplit ==
    op = "parse_text_format" => (ret.flag <=> SomeSpansChanged)

(***************************************************************************)
(* parse_text_format: the early exit from the loop over the lines.         *)
(***************************************************************************)
\* The lines as constructed lie top to bottom: top edges never decrease.
SortedTopToBottom ==
    \A i \in 1..(Len(old.lines) - 1) : old.lines[i].bbox[2] <= old.lines[i + 1].bbox[2]

\* Shape r is undecided and intersects the block.
Applies(r) ==
    /\ arg[r].type = "UNDEFINED"
    /\ Intersects(BlockBBox(old.lines), arg[r].bbox)

\* C11: on a block whose lines are sorted top to bottom, for every
\* undecided shape that intersects the block bbox, every line whose
\* margin-expanded bbox intersects the shape has its spans passed through
\* the split loop; the break at a line below the shape skips no such line.
C11_BreakSafeOnSorted ==
    (op = "parse_text_format" /\ SortedTopToBottom)
        => \A r \in 1..Len(arg) :
               Applies(r)
                   => \A i \in 1..Len(old.lines) :
                          IntersectsExpanded(arg[r].bbox, old.lines[i].bbox)
                              => <<r, i>> \in ret.reset

=============================================================================
